---- MODULE Spec2Model ----
(***************************************************************************)
(* Fault-tolerant retry supervisor (orchestrator/recovery.py), launch      *)
(* coordinator (orchestrator/nodes.py) and checkpoint manifest manager     *)
(* (engine/state.py).                                                       *)
(*                                                                         *)
(* Texts (failure descriptions, directory names) are sequences of          *)
(* one-character strings, so that lower-casing, substring search, name     *)
(* formatting and the regular-expression match of the directory scan are   *)
(* computed, not assumed.  Durations are whole seconds.                     *)
(***************************************************************************)
EXTENDS Integers, Sequences, FiniteSets, TLC

\* ------------------------------------------------------------------ bounds
\* largest max_retries of a drawn RetryPolicy
MaxRetriesBound == 3
\* largest base_backoff of a drawn RetryPolicy
MaxBase == 2
\* largest max_backoff of a drawn RetryPolicy
MaxCap == 3
\* largest attempt backoff_for is called with on its own
MaxAttemptArg == 1025
\* checkpoint steps are 1..MaxStep
MaxStep == 2
\* follower processes of the job (ranks 1..NFollowers; rank 0 is the leader)
NFollowers == 1
\* operations (save attempts, manager calls, outside changes of the
\* directory) one behaviour starts; also the last value of the clock
MaxOps == 3
\* checkpoint attempts of one behaviour of the job's save loop alone
MaxAttempts == 2
\* operations of one behaviour in which any operation can be cut short
MaxCrashOps == 2
\* operations of one long run of successful saves and registrations
MaxHistOps == 25
\* registrations of outside checkpoints in such a run
MaxExternal == 2

VARIABLES
    \* ---- run_with_retries (recovery.py 43-61)
    policy,      \* the RetryPolicy handed to run_with_retries
    rpc,         \* its position: "call", "sleeping", "returned", "raised"
    attempt,     \* its local attempt counter
    calls,       \* history: the result of every invocation of fn, in order
    sleeps,      \* history: the argument of every time.sleep, in order
    raisedExc,   \* the failure run_with_retries propagated (a text), or NoExc
    \* ---- GracefulTerminator (recovery.py 64-78)
    terminate,   \* the threading.Event _terminate
    \* ---- the checkpoint root directory (state.py)
    fs,          \* the directories under root_dir: name -> (file name -> content)
    manifest,    \* the file manifest.json: NoFile or its content
    manifestTmp, \* the file manifest.json.tmp: NoFile or its content
    \* ---- one checkpoint attempt: every process calls save(step, ...)
    pc,          \* each process's position in save
    saveArgs,    \* the arguments of the attempt: step, blob, loss
    ret,         \* what save returned to each process
    clock,       \* time.time(), advanced by every operation
    \* ---- history
    res,         \* the last manager operation and what it returned
    pristine,    \* no save failed and nothing outside the manager changed files
    failedAt,    \* the leader's position when its last save failed
    latestBefore,\* latest_checkpoint()'s possible results when the attempt began
    recorded,    \* every record handed to _record_checkpoint and written, in order
    produced,    \* the directories save's os.replace(tmp_dir, ckpt_dir) put in place
    \* ---- one call of a stateless function (classify_fault, backoff_for)
    fnArg,       \* the argument it is called with
    fnOut        \* whether it was called, and what it returned or raised

fnVars == <<fnArg, fnOut>>

retryVars == <<policy, rpc, attempt, calls, sleeps, raisedExc, terminate, fnArg, fnOut>>

histVars == <<recorded, produced>>

ckptVars == <<fs, manifest, manifestTmp, pc, saveArgs, ret, clock, res, pristine,
              failedAt, latestBefore, recorded, produced>>

vars == <<policy, rpc, attempt, calls, sleeps, raisedExc, terminate,
          fs, manifest, manifestTmp, pc, saveArgs, ret, clock, res, pristine,
          failedAt, latestBefore, recorded, produced, fnArg, fnOut>>

\* -------------------------------------------------------------------- text
UpperChars ==
    <<"A","B","C","D","E","F","G","H","I","J","K","L","M",
      "N","O","P","Q","R","S","T","U","V","W","X","Y","Z">>

LowerChars ==
    <<"a","b","c","d","e","f","g","h","i","j","k","l","m",
      "n","o","p","q","r","s","t","u","v","w","x","y","z">>

\* str.lower() on one character
LowerChar(c) ==
    IF \E i \in 1..Len(UpperChars) : UpperChars[i] = c
    THEN LowerChars[CHOOSE i \in 1..Len(UpperChars) : UpperChars[i] = c]
    ELSE c

\* str.lower()
LowerText(t) == [i \in 1..Len(t) |-> LowerChar(t[i])]

\* the Python test `sig in text` on strings
Contains(sig, text) ==
    \E i \in 0..(Len(text) - Len(sig)) : SubSeq(text, i + 1, i + Len(sig)) = sig

\* ------------------------------------------------- recovery.py: the classifier
RETRIABLE == "retriable"

NON_RETRIABLE == "non_retriable"

RETRIABLE_SIGNATURES ==
    << <<"n","c","c","l">>,
       <<"c","o","n","n","e","c","t","i","o","n"," ","r","e","s","e","t">>,
       <<"t","i","m","e","o","u","t">>,
       <<"c","u","d","a"," ","e","r","r","o","r",":"," ",
         "o","u","t"," ","o","f"," ","m","e","m","o","r","y">>,
       <<"r","u","n","t","i","m","e","e","r","r","o","r",":"," ",
         "c","u","d","a"," ","e","r","r","o","r">> >>

RECURSIVE ClassifyFrom(_, _)
\* the for loop of classify_fault from signature i on, over the lowered text
ClassifyFrom(text, i) ==
    IF i > Len(RETRIABLE_SIGNATURES) THEN NON_RETRIABLE
    ELSE IF Contains(RETRIABLE_SIGNATURES[i], text) THEN RETRIABLE
    ELSE ClassifyFrom(text, i + 1)

\* a slip in line 25: the text is not lowered before the search
classify_fault_caseSensitive(excText) == ClassifyFrom(excText, 1)

\* classify_fault(exc), exc given by its str()
classify_fault(excText) == ClassifyFrom(LowerText(excText), 1)

\* ------------------------------------------------ recovery.py: RetryPolicy
Min(a, b) == IF a <= b THEN a ELSE b

\* a slip in the exponent: the delay doubles per attempt number, not per power
backoff_for_linear(pol, att) == Min(pol.max_backoff, pol.base_backoff * (2 * att))

\* RetryPolicy.backoff_for when it returns.  An exponent above max_backoff is
\* taken as max_backoff: with base_backoff >= 1 the product is past the cap in
\* both cases (2 ^ n > n), and the power stays a small integer.
backoff_for(pol, att) ==
    Min(pol.max_backoff, pol.base_backoff * (2 ^ Min(att, pol.max_backoff)))

\* the largest n for which the integer 2 ** n converts to a float (a double's
\* largest power of two)
FloatMaxExp == 1023

\* RetryPolicy.backoff_for raises: base_backoff is a float, so the product
\* base_backoff * (2 ** attempt) first converts the integer 2 ** attempt to a
\* float, which fails with OverflowError when it has no float
backoff_raises(pol, att) == att > FloatMaxExp

\* the policies run_with_retries is handed: max_retries >= 0, base_backoff > 0,
\* max_backoff >= base_backoff
Policies ==
    { [max_retries |-> r, base_backoff |-> b, max_backoff |-> m] :
        r \in 0..MaxRetriesBound, b \in 1..MaxBase, m \in 1..MaxCap }

\* --------------------------------------------- the work function's outcomes
TxtTimeout == <<"R","e","a","d"," ","T","i","m","e","o","u","t">>

TxtNccl == <<"N","C","C","L"," ","e","r","r","o","r">>

TxtBadShape == <<"b","a","d"," ","s","h","a","p","e">>

TxtEmpty == <<>>

\* the failure texts the work function is drawn to raise
FaultTexts == {TxtTimeout, TxtNccl, TxtBadShape, TxtEmpty}

OkResult == [ok |-> TRUE, text |-> <<>>]

Failure(t) == [ok |-> FALSE, text |-> t]

NoExc == [raised |-> FALSE, text |-> <<>>]

Exc(t) == [raised |-> TRUE, text |-> t]

\* ------------------------------------------ one call of a stateless function
NoOut == [done |-> FALSE]

Returned(v) == [done |-> TRUE, raised |-> "", value |-> v]

\* the call ended with exception e
Raised(e) == [done |-> TRUE, raised |-> e, value |-> -1]

\* no stateless function is under call
NotCalled == fnArg = <<>> /\ fnOut = NoOut

\* ------------------------------- recovery.py: classify_fault called on its own
\* str.upper() on one character
UpperChar(c) ==
    IF \E i \in 1..Len(LowerChars) : LowerChars[i] = c
    THEN UpperChars[CHOOSE i \in 1..Len(LowerChars) : LowerChars[i] = c]
    ELSE c

UpperText(t) == [i \in 1..Len(t) |-> UpperChar(t[i])]

\* str.capitalize(): the first character raised, the others as they are here
Capitalized(t) == [i \in 1..Len(t) |-> IF i = 1 THEN UpperChar(t[i]) ELSE t[i]]

\* the texts the failures' messages are built around: every signature, every
\* signature with its last or first character missing or with a character
\* inserted in its middle, and the work function's texts
CoreTexts ==
    LET sigs == { RETRIABLE_SIGNATURES[i] : i \in 1..Len(RETRIABLE_SIGNATURES) }
    IN  sigs
        \cup { SubSeq(g, 1, Len(g) - 1) : g \in sigs }
        \cup { SubSeq(g, 2, Len(g)) : g \in sigs }
        \cup { SubSeq(g, 1, 2) \o <<"-">> \o SubSeq(g, 3, Len(g)) : g \in sigs }
        \cup FaultTexts

\* what stands before and after the core in a message
Prefixes == { <<>>, <<"E","r","r","o","r",":"," ">> }

Suffixes == { <<>>, <<" ","(","r","a","n","k"," ","3",")">> }

\* the texts classify_fault is called with, in three casings
ClassifyInputs ==
    LET plain == { a \o c \o z : a \in Prefixes, c \in CoreTexts, z \in Suffixes }
    IN  plain \cup { UpperText(t) : t \in plain } \cup { Capitalized(t) : t \in plain }

\* ------------------------------------------------------- state.py: names
\* Python's None (an absent latest step, an absent loss); steps are >= 0
None == -1

STEP_PREFIX == <<"s","t","e","p","_">>

TMP_SUFFIX == <<".","t","m","p">>

STATE_FILE == "state.pt"

META_FILE == "meta.json"

\* the sibling _atomic_write writes first
META_TMP_FILE == "meta.json.tmp"

Digits == <<"0","1","2","3","4","5","6","7","8","9">>

IsDigit(c) == \E i \in 1..Len(Digits) : Digits[i] = c

DigitValue(c) == (CHOOSE i \in 1..Len(Digits) : Digits[i] = c) - 1

RECURSIVE DecDigits(_)
\* the decimal digits of n >= 0
DecDigits(n) ==
    IF n < 10 THEN <<Digits[n + 1]>>
    ELSE DecDigits(n \div 10) \o <<Digits[(n % 10) + 1]>>

RECURSIVE ZeroPad(_, _)
\* the format width 08d: zeros on the left up to w characters
ZeroPad(s, w) == IF Len(s) >= w THEN s ELSE ZeroPad(<<"0">> \o s, w)

\* NodeStateHandler.checkpoint_dir, relative to root_dir: step_{step:08d}
checkpoint_dir(step) == STEP_PREFIX \o ZeroPad(DecDigits(step), 8)

\* f"{ckpt_dir}.tmp"
tmp_dir_of(ckptDir) == ckptDir \o TMP_SUFFIX

RECURSIVE DigitRun(_, _)
\* the longest run of digits of name that starts at position i (\d+ is greedy)
DigitRun(name, i) ==
    IF i <= Len(name) /\ IsDigit(name[i])
    THEN <<name[i]>> \o DigitRun(name, i + 1)
    ELSE <<>>

RECURSIVE ParseInt(_)
\* int() of a string of digits
ParseInt(ds) ==
    IF ds = <<>> THEN 0
    ELSE 10 * ParseInt(SubSeq(ds, 1, Len(ds) - 1)) + DigitValue(ds[Len(ds)])

\* re.compile(r"step_(\d+)").match(name): the pattern must match at the start
\* of the name; what follows the digits is not looked at
PatternMatches(name) ==
    /\ Len(name) > Len(STEP_PREFIX)
    /\ SubSeq(name, 1, Len(STEP_PREFIX)) = STEP_PREFIX
    /\ IsDigit(name[Len(STEP_PREFIX) + 1])

\* int(match.group(1))
MatchedStep(name) == ParseInt(DigitRun(name, Len(STEP_PREFIX) + 1))

\* ------------------------------------------------- state.py: files on disk
NoFile == [exists |-> FALSE]

\* the manifest _load_manifest returns when manifest.json does not exist
EmptyManifest == [exists |-> TRUE, latest |-> None, checkpoints |-> <<>>]

ManifestFile(latest, checkpoints) ==
    [exists |-> TRUE, latest |-> latest, checkpoints |-> checkpoints]

\* torch.save's bytes for a state, and bytes torch.load cannot read
Serialize(blob) == <<"pt", blob>>

Garbage == <<"garbage">>

\* what an interrupted torch.save leaves in the file: bytes torch.load cannot
\* read
Torn == <<"torn">>

\* what open(tmp, "w") followed by an interrupted json.dump leaves in the
\* file: not a JSON document
TornJson == [torn |-> TRUE]

\* manifest.json.tmp in that condition
TornManifest == [exists |-> TRUE, torn |-> TRUE]

Readable(bytes) == bytes[1] = "pt"

Deserialize(bytes) == bytes[2]

EmptyDir == [f \in {} |-> NoFile]

\* a directory with file f written (created or replaced)
WithFile(dir, f, content) == (f :> content) @@ dir

\* a directory with file f gone
WithoutFile(dir, f) == [g \in (DOMAIN dir) \ {f} |-> dir[g]]

\* the tree with directory name set to dir
WithDir(tree, name, dir) == (name :> dir) @@ tree

\* the tree without directory name
WithoutDir(tree, name) == [n \in (DOMAIN tree) \ {name} |-> tree[n]]

\* the JSON object save and record_external write to meta.json
MetaOf(step, loss, now) ==
    [step |-> step, loss |-> loss, timestamp |-> now, rank |-> 0]

\* CheckpointInfo
CheckpointInfo(step, path, loss, timestamp, ok) ==
    [step |-> step, path |-> path, loss |-> loss, timestamp |-> timestamp,
     ok |-> ok]

\* ----------------------------------------------- state.py: pure operations
\* NodeStateHandler._load_manifest
load_manifest(mf) == IF mf.exists THEN mf ELSE EmptyManifest

\* the last n elements of a sequence: entries[-n:]
LastN(seq, n) ==
    IF Len(seq) <= n THEN seq ELSE SubSeq(seq, Len(seq) - n + 1, Len(seq))

\* keep only last 20 to avoid unbounded growth
HistoryLimit == 20

\* a slip in line 71: the latest pointer is carried over, never set
record_checkpoint_keepsLatest(mf, info) ==
    LET m == load_manifest(mf)
        entries == Append(m.checkpoints, info)
    IN  ManifestFile(m.latest, LastN(entries, HistoryLimit))

\* a slip in the slice: entries[:20] keeps the oldest records
record_checkpoint_keepFirst(mf, info) ==
    LET m == load_manifest(mf)
        entries == Append(m.checkpoints, info)
    IN  ManifestFile(IF info.ok THEN info.step ELSE m.latest,
                     SubSeq(entries, 1, Min(Len(entries), HistoryLimit)))

\* NodeStateHandler._record_checkpoint: the manifest it hands to _write_manifest
record_checkpoint(mf, info) ==
    LET m == load_manifest(mf)
        entries == Append(m.checkpoints, info)
    IN  ManifestFile(IF info.ok THEN info.step ELSE m.latest,
                     LastN(entries, HistoryLimit))

\* NodeStateHandler._is_valid_checkpoint
is_valid_checkpoint(tree, path) ==
    LET has_state == path \in DOMAIN tree /\ STATE_FILE \in DOMAIN tree[path]
        has_meta == path \in DOMAIN tree /\ META_FILE \in DOMAIN tree[path]
    IN  /\ path \in DOMAIN tree
        /\ has_meta
        /\ (has_state \/ Cardinality(DOMAIN tree[path]) > 0)

\* NodeStateHandler._scan_checkpoint_dirs: the (step, path) pairs of the names
\* the pattern matches (as a set; see FirstValid for the order)
scan_checkpoint_dirs(tree) ==
    { <<MatchedStep(name), name>> : name \in {n \in DOMAIN tree : PatternMatches(n)} }

\* the fallback loop over the candidates sorted by step, largest first: the
\* first valid one.  The sort is stable and os.listdir's order is arbitrary, so
\* among valid candidates of the same largest step any one can come first.
FirstValid(tree) ==
    LET valid == { c \in scan_checkpoint_dirs(tree) : is_valid_checkpoint(tree, c[2]) }
    IN  { c \in valid : \A d \in valid : d[1] <= c[1] }

\* NodeStateHandler.latest_checkpoint: the set of results it can return, each
\* an Optional: <<>> for None, <<info>> for a CheckpointInfo
latest_checkpoint(tree, mf) ==
    LET latest == load_manifest(mf).latest
    IN  IF latest # None /\ is_valid_checkpoint(tree, checkpoint_dir(latest))
        THEN { <<CheckpointInfo(latest, checkpoint_dir(latest), None, 0, TRUE)>> }
        ELSE IF FirstValid(tree) = {} THEN { <<>> }
        ELSE { <<CheckpointInfo(c[1], c[2], None, 0, TRUE)>> : c \in FirstValid(tree) }

\* NodeStateHandler.load raises: no state.pt under path, or unreadable bytes
LoadFails(tree, path) ==
    \/ path \notin DOMAIN tree
    \/ STATE_FILE \notin DOMAIN tree[path]
    \/ ~Readable(tree[path][STATE_FILE])

\* NodeStateHandler.load's result when it does not raise
load(tree, path) == Deserialize(tree[path][STATE_FILE])

\* NodeStateHandler.list_checkpoints
list_checkpoints(mf) == load_manifest(mf).checkpoints

\* NodeStateHandler.validate_all: (path, ok, reason) for every scanned directory
validate_all(tree) ==
    { <<c[2], is_valid_checkpoint(tree, c[2]),
        IF is_valid_checkpoint(tree, c[2]) THEN "none" ELSE "missing files">> :
      c \in scan_checkpoint_dirs(tree) }

\* load_latest_checkpoint's except branch: the manifest it writes back
mark_bad(mf, step) ==
    LET m == load_manifest(mf)
    IN  ManifestFile(m.latest,
            [i \in 1..Len(m.checkpoints) |->
                IF m.checkpoints[i].step = step
                THEN [m.checkpoints[i] EXCEPT !.ok = FALSE]
                ELSE m.checkpoints[i]])

\* ------------------------------------------------ state.py: the job's inputs
Leader == 0

Followers == 1..NFollowers

Procs == {Leader} \cup Followers

Steps == 1..MaxStep

\* the (state blob, loss) pairs save is handed: a loss of none, and 0.42 in
\* hundredths
SaveInputs == { [blob |-> "blobA", loss |-> None], [blob |-> "blobB", loss |-> 42] }

\* the loss values record_external is handed
Losses == {None, 42}

\* a directory of the root an external checkpointing mechanism writes to
EXT_DIR == <<"d","s","_","c","k","p","t">>

\* the file such a mechanism leaves there (it does not use state.pt)
SHARD_FILE == "shard.bin"

\* the locations record_external is called with for a step
RecordPaths(step) == {checkpoint_dir(step), EXT_DIR}

NoArgs == [step |-> None, blob |-> "", loss |-> None]

AllIdle == [p \in Procs |-> "idle"]

NoReturn == [p \in Procs |-> <<>>]

\* no save is in flight
Quiet == \A p \in Procs : pc[p] \in {"idle", "done"}

\* the barrier of the communication layer: it lets a process through once every
\* process of the job has called it
BarrierOpen == \A q \in Procs : pc[q] \in {"barrier", "done"}

CkptInit ==
    /\ fs = [n \in {} |-> EmptyDir]
    /\ manifest = NoFile
    /\ manifestTmp = NoFile
    /\ pc = AllIdle
    /\ saveArgs = NoArgs
    /\ ret = NoReturn
    /\ clock = 0
    /\ res = [op |-> "none"]
    /\ pristine = TRUE
    /\ failedAt = "none"
    /\ latestBefore = { <<>> }
    /\ recorded = <<>>
    /\ produced = {}

\* ------------------------------------------- recovery.py: run_with_retries
\* a slip in the handler's test: the fault type is not consulted
ShouldRetry_anyFault(faultType, att, pol) == att < pol.max_retries

\* a slip in the handler's test: one retry too many
ShouldRetry_offByOne(faultType, att, pol) ==
    faultType = RETRIABLE /\ att <= pol.max_retries

\* the test of line 54
ShouldRetry(faultType, att, pol) ==
    faultType = RETRIABLE /\ att < pol.max_retries

RetryInit ==
    /\ policy \in { p \in Policies : p.max_backoff >= p.base_backoff }
    /\ rpc = "call"
    /\ attempt = 0
    /\ calls = <<>>
    /\ sleeps = <<>>
    /\ raisedExc = NoExc
    /\ terminate = FALSE
    /\ NotCalled
    /\ CkptInit

\* lines 48-50: fn() returns
InvokeOk ==
    /\ rpc = "call"
    /\ calls' = Append(calls, OkResult)
    /\ rpc' = "returned"
    /\ UNCHANGED <<policy, attempt, sleeps, raisedExc, terminate, ckptVars, fnVars>>

\* lines 48-57 and 60-61: fn() raises exc; the handler classifies it and either
\* enters time.sleep(delay) or re-raises exc
InvokeRaises ==
    /\ rpc = "call"
    /\ \E t \in FaultTexts :
        /\ calls' = Append(calls, Failure(t))
        /\ IF ShouldRetry(classify_fault(t), attempt, policy)
           THEN /\ sleeps' = Append(sleeps, backoff_for(policy, attempt))
                /\ rpc' = "sleeping"
                /\ raisedExc' = raisedExc
           ELSE /\ rpc' = "raised"
                /\ raisedExc' = Exc(t)
                /\ sleeps' = sleeps
    /\ UNCHANGED <<policy, attempt, terminate, ckptVars, fnVars>>

\* lines 57-59: time.sleep returns (a handled signal does not shorten it),
\* attempt += 1, continue
Wake ==
    /\ rpc = "sleeping"
    /\ attempt' = attempt + 1
    /\ rpc' = "call"
    /\ UNCHANGED <<policy, calls, sleeps, raisedExc, terminate, ckptVars, fnVars>>

\* a slip in _handle: the event is flipped, so a second signal clears it
HandleSignal_toggles ==
    /\ terminate' = ~terminate
    /\ UNCHANGED <<policy, rpc, attempt, calls, sleeps, raisedExc, ckptVars, fnVars>>

\* GracefulTerminator._handle: SIGTERM arrives, the event is set
HandleSignal ==
    /\ terminate' = TRUE
    /\ UNCHANGED <<policy, rpc, attempt, calls, sleeps, raisedExc, ckptVars, fnVars>>

\* GracefulTerminator.should_terminate
should_terminate == terminate

RetryStep == InvokeOk \/ InvokeRaises \/ Wake

RetryNext == RetryStep \/ HandleSignal

RetrySpec == RetryInit /\ [][RetryNext]_vars

\* the supervisor's process keeps running: its loop is not starved
FairRetrySpec == RetrySpec /\ WF_vars(RetryStep)

\* ------------------------------- the stateless functions called on their own
ClassifyInit ==
    /\ fnArg \in ClassifyInputs
    /\ fnOut = NoOut
    /\ policy = [max_retries |-> 3, base_backoff |-> 10, max_backoff |-> 300]
    /\ rpc = "call"
    /\ attempt = 0
    /\ calls = <<>>
    /\ sleeps = <<>>
    /\ raisedExc = NoExc
    /\ terminate = FALSE
    /\ CkptInit

\* classify_fault(exc) is called and returns
Classify ==
    /\ ~fnOut.done
    /\ fnOut' = Returned(classify_fault(fnArg))
    /\ UNCHANGED <<fnArg, policy, rpc, attempt, calls, sleeps, raisedExc, terminate,
                   ckptVars>>

ClassifySpec == ClassifyInit /\ [][Classify]_vars

\* the policies of the claims on backoff_for: base_backoff > 0 and
\* max_backoff >= base_backoff
BackoffInputs ==
    { [pol |-> p, att |-> a] :
        p \in { q \in Policies : q.max_backoff >= q.base_backoff },
        a \in 0..MaxAttemptArg }

BackoffInit ==
    /\ fnArg \in BackoffInputs
    /\ fnOut = NoOut
    /\ policy = fnArg.pol
    /\ rpc = "call"
    /\ attempt = 0
    /\ calls = <<>>
    /\ sleeps = <<>>
    /\ raisedExc = NoExc
    /\ terminate = FALSE
    /\ CkptInit

\* policy.backoff_for(attempt) is called and returns or raises
Backoff ==
    /\ ~fnOut.done
    /\ fnOut' = IF backoff_raises(fnArg.pol, fnArg.att)
                THEN Raised("OverflowError")
                ELSE Returned(backoff_for(fnArg.pol, fnArg.att))
    /\ UNCHANGED <<fnArg, policy, rpc, attempt, calls, sleeps, raisedExc, terminate,
                   ckptVars>>

BackoffSpec == BackoffInit /\ [][Backoff]_vars

\* ------------------------------------------- state.py: the operations
\* the job loop reaches a checkpoint step: every process is about to call
\* save(step, state, loss)
BeginAttemptOf(s, in) ==
    /\ Quiet
    /\ clock < MaxOps
    /\ saveArgs' = [step |-> s, blob |-> in.blob, loss |-> in.loss]
    /\ pc' = [p \in Procs |-> "call"]
    /\ ret' = NoReturn
    /\ clock' = clock + 1
    /\ res' = [op |-> "save"]
    /\ failedAt' = "none"
    /\ latestBefore' = latest_checkpoint(fs, manifest)
    /\ UNCHANGED <<fs, manifest, manifestTmp, pristine, retryVars, histVars>>

BeginAttempt == \E s \in Steps, in \in SaveInputs : BeginAttemptOf(s, in)

\* a slip in the test of line 83: a process that is not the main process goes
\* on to line 90 and makes the temporary directory before it waits
FollowerSave_writes(p) ==
    /\ pc[p] = "call"
    /\ pc' = [pc EXCEPT ![p] = "barrier"]
    /\ fs' = WithDir(fs, tmp_dir_of(checkpoint_dir(saveArgs.step)), EmptyDir)
    /\ UNCHANGED <<manifest, manifestTmp, saveArgs, ret, clock, res,
                   pristine, failedAt, latestBefore, retryVars, histVars>>

\* save, lines 81-84, not the main process: barrier() is called
FollowerSave(p) ==
    /\ pc[p] = "call"
    /\ pc' = [pc EXCEPT ![p] = "barrier"]
    /\ UNCHANGED <<fs, manifest, manifestTmp, saveArgs, ret, clock, res,
                   pristine, failedAt, latestBefore, retryVars, histVars>>

\* save, lines 84-85: barrier() returns, save returns ""
FollowerReturn(p) ==
    /\ pc[p] = "barrier"
    /\ BarrierOpen
    /\ pc' = [pc EXCEPT ![p] = "done"]
    /\ ret' = [ret EXCEPT ![p] = <<>>]
    /\ UNCHANGED <<fs, manifest, manifestTmp, saveArgs, clock, res,
                   pristine, failedAt, latestBefore, retryVars, histVars>>

LeaderAt(where) == pc[Leader] = where

LeaderTo(where) == pc' = [pc EXCEPT ![Leader] = where]

CkptDir == checkpoint_dir(saveArgs.step)

TmpDir == tmp_dir_of(CkptDir)

\* save, lines 86-90: an old temporary directory is removed, a new one made
LeaderMakeTmp ==
    /\ LeaderAt("call")
    /\ fs' = WithDir(fs, TmpDir, EmptyDir)
    /\ LeaderTo("tmp")
    /\ UNCHANGED <<manifest, manifestTmp, saveArgs, ret, clock, res,
                   pristine, failedAt, latestBefore, retryVars, histVars>>

\* save, lines 91-93: torch.save(state, state_path)
LeaderWriteState ==
    /\ LeaderAt("tmp")
    /\ fs' = WithDir(fs, TmpDir,
                WithFile(fs[TmpDir], STATE_FILE, Serialize(saveArgs.blob)))
    /\ LeaderTo("state")
    /\ UNCHANGED <<manifest, manifestTmp, saveArgs, ret, clock, res,
                   pristine, failedAt, latestBefore, retryVars, histVars>>

\* save, lines 94-102, _atomic_write lines 29-31: meta.json.tmp is written
LeaderWriteMetaTmp ==
    /\ LeaderAt("state")
    /\ fs' = WithDir(fs, TmpDir,
                WithFile(fs[TmpDir], META_TMP_FILE,
                         MetaOf(saveArgs.step, saveArgs.loss, clock)))
    /\ LeaderTo("metatmp")
    /\ UNCHANGED <<manifest, manifestTmp, saveArgs, ret, clock, res,
                   pristine, failedAt, latestBefore, retryVars, histVars>>

\* _atomic_write line 32: meta.json.tmp is renamed to meta.json
LeaderReplaceMeta ==
    /\ LeaderAt("metatmp")
    /\ fs' = WithDir(fs, TmpDir,
                WithFile(WithoutFile(fs[TmpDir], META_TMP_FILE), META_FILE,
                         fs[TmpDir][META_TMP_FILE]))
    /\ LeaderTo("meta")
    /\ UNCHANGED <<manifest, manifestTmp, saveArgs, ret, clock, res,
                   pristine, failedAt, latestBefore, retryVars, histVars>>

\* os.replace(tmp_dir, ckpt_dir) raises OSError: a directory can only be
\* renamed over a directory that is empty
RenameRefused == CkptDir \in DOMAIN fs /\ DOMAIN fs[CkptDir] # {}

\* save, line 103: the temporary directory is renamed to step_<N>, or the
\* rename raises and save ends with that error
LeaderRename ==
    /\ LeaderAt("meta")
    /\ IF RenameRefused
       THEN /\ LeaderTo("failed")
            /\ failedAt' = "meta"
            /\ fs' = fs
            /\ produced' = produced
       ELSE /\ fs' = WithDir(WithoutDir(fs, TmpDir), CkptDir, fs[TmpDir])
            /\ LeaderTo("renamed")
            /\ failedAt' = failedAt
            /\ produced' = produced \cup {CkptDir}
    /\ UNCHANGED <<manifest, manifestTmp, saveArgs, ret, clock, res,
                   pristine, latestBefore, retryVars, recorded>>

\* save, lines 104-105, _record_checkpoint lines 58-71, _atomic_write lines
\* 29-31: the new manifest is written to manifest.json.tmp
LeaderWriteManifestTmp ==
    /\ LeaderAt("renamed")
    /\ manifestTmp' = record_checkpoint(manifest,
            CheckpointInfo(saveArgs.step, CkptDir, saveArgs.loss, clock, TRUE))
    /\ LeaderTo("mftmp")
    /\ UNCHANGED <<fs, manifest, saveArgs, ret, clock, res,
                   pristine, failedAt, latestBefore, retryVars, histVars>>

\* _atomic_write line 32: manifest.json.tmp is renamed to manifest.json
LeaderReplaceManifest ==
    /\ LeaderAt("mftmp")
    /\ manifest' = manifestTmp
    /\ manifestTmp' = NoFile
    /\ LeaderTo("recorded")
    /\ recorded' = Append(recorded,
            CheckpointInfo(saveArgs.step, CkptDir, saveArgs.loss, clock, TRUE))
    /\ UNCHANGED <<fs, saveArgs, ret, clock, res,
                   pristine, failedAt, latestBefore, retryVars, produced>>

\* a reordering slip: barrier() is called before _record_checkpoint
LeaderBarrier_beforeRecord ==
    /\ LeaderAt("renamed")
    /\ LeaderTo("barrier")
    /\ UNCHANGED <<fs, manifest, manifestTmp, saveArgs, ret, clock, res,
                   pristine, failedAt, latestBefore, retryVars, histVars>>

\* save, line 106: barrier() is called
LeaderBarrier ==
    /\ LeaderAt("recorded")
    /\ LeaderTo("barrier")
    /\ UNCHANGED <<fs, manifest, manifestTmp, saveArgs, ret, clock, res,
                   pristine, failedAt, latestBefore, retryVars, histVars>>

\* save, lines 106-107: barrier() returns, save returns ckpt_dir
LeaderReturn ==
    /\ LeaderAt("barrier")
    /\ BarrierOpen
    /\ LeaderTo("done")
    /\ ret' = [ret EXCEPT ![Leader] = CkptDir]
    /\ UNCHANGED <<fs, manifest, manifestTmp, saveArgs, clock, res,
                   pristine, failedAt, latestBefore, retryVars, histVars>>

\* the positions at which the leader's next file operation can raise (disk
\* full, permission denied) or the process can be killed
FailPoints == {"call", "tmp", "state", "metatmp", "meta", "renamed", "mftmp"}

\* a slip in _atomic_write: the data is written to path itself, so an
\* interrupted write leaves the final name partly written
TornManifestWrite_inPlace == manifest' = TornManifest /\ manifestTmp' = manifestTmp

\* _atomic_write lines 29-31 on manifest.json, interrupted inside json.dump:
\* the sibling manifest.json.tmp is partly written, manifest.json is untouched
TornManifestWrite == manifestTmp' = TornManifest /\ manifest' = manifest

\* the same, for a file f of directory d: torch.save's file, or the sibling
\* _atomic_write writes first
TornFileWrite(d, f, torn) == fs' = WithDir(fs, d, WithFile(fs[d], f, torn))

\* save ends there: the error propagates to the caller of save, nothing
\* written so far is undone, barrier() is not called.  The operation that was
\* under way either wrote nothing or leaves the file it was writing torn.
LeaderFails ==
    /\ pc[Leader] \in FailPoints
    /\ failedAt' = pc[Leader]
    /\ LeaderTo("failed")
    /\ pristine' = FALSE
    /\ \/ UNCHANGED <<fs, manifest, manifestTmp>>
       \/ /\ LeaderAt("tmp")
          /\ TornFileWrite(TmpDir, STATE_FILE, Torn)
          /\ UNCHANGED <<manifest, manifestTmp>>
       \/ /\ LeaderAt("state")
          /\ TornFileWrite(TmpDir, META_TMP_FILE, TornJson)
          /\ UNCHANGED <<manifest, manifestTmp>>
       \/ /\ LeaderAt("renamed")
          /\ TornManifestWrite
          /\ fs' = fs
    /\ UNCHANGED <<saveArgs, ret, clock, res, latestBefore, retryVars, histVars>>

\* nodes.py launch: a worker's failure ends the whole process group, and the
\* job is started again with fresh processes
Relaunch ==
    /\ LeaderAt("failed")
    /\ pc' = AllIdle
    /\ UNCHANGED <<fs, manifest, manifestTmp, saveArgs, ret, clock, res,
                   pristine, failedAt, latestBefore, retryVars, histVars>>

\* NodeStateHandler.record_external(s, path, l), from call to return
RecordExternalOf(s, path, l) ==
    LET dir == IF path \in DOMAIN fs THEN fs[path] ELSE EmptyDir
    IN  /\ clock' = clock + 1
        /\ fs' = WithDir(fs, path,
                    WithFile(WithoutFile(dir, META_TMP_FILE), META_FILE,
                             MetaOf(s, l, clock')))
        /\ manifest' = record_checkpoint(manifest,
                            CheckpointInfo(s, path, l, clock', TRUE))
        /\ recorded' = Append(recorded, CheckpointInfo(s, path, l, clock', TRUE))
        /\ res' = [op |-> "record_external", step |-> s, path |-> path]
        /\ manifestTmp' = NoFile
        /\ pc' = AllIdle
        /\ UNCHANGED <<saveArgs, ret, pristine, failedAt, latestBefore, retryVars,
                       produced>>

\* NodeStateHandler.record_external
RecordExternal ==
    /\ Quiet
    /\ clock < MaxOps
    /\ \E s \in Steps, l \in Losses :
       \E path \in RecordPaths(s) : RecordExternalOf(s, path, l)

\* load_latest_checkpoint
LoadLatest ==
    /\ Quiet
    /\ clock < MaxOps
    /\ clock' = clock + 1
    /\ pc' = AllIdle
    /\ \E found \in latest_checkpoint(fs, manifest) :
        IF found = <<>>
        THEN /\ res' = [op |-> "load_latest", found |-> found, failed |-> FALSE,
                        value |-> <<>>, before |-> load_manifest(manifest)]
             /\ UNCHANGED <<manifest, manifestTmp>>
        ELSE IF LoadFails(fs, found[1].path)
        THEN /\ manifest' = mark_bad(manifest, found[1].step)
             /\ manifestTmp' = NoFile
             /\ res' = [op |-> "load_latest", found |-> found, failed |-> TRUE,
                        value |-> <<>>, before |-> load_manifest(manifest)]
        ELSE /\ res' = [op |-> "load_latest", found |-> found, failed |-> FALSE,
                        value |-> <<found[1], load(fs, found[1].path)>>,
                        before |-> load_manifest(manifest)]
             /\ UNCHANGED <<manifest, manifestTmp>>
    /\ UNCHANGED <<fs, saveArgs, ret, pristine, failedAt, latestBefore, retryVars, histVars>>

\* outside the manager: a checkpoint's metadata file is lost
RemoveMeta ==
    /\ Quiet
    /\ clock < MaxOps
    /\ clock' = clock + 1
    /\ \E name \in DOMAIN fs :
        /\ META_FILE \in DOMAIN fs[name]
        /\ fs' = WithDir(fs, name, WithoutFile(fs[name], META_FILE))
    /\ pristine' = FALSE
    /\ res' = [op |-> "outside"]
    /\ pc' = AllIdle
    /\ UNCHANGED <<manifest, manifestTmp, saveArgs, ret, failedAt, latestBefore,
                   retryVars, histVars>>

\* outside the manager: a checkpoint's state artifact is damaged
CorruptState ==
    /\ Quiet
    /\ clock < MaxOps
    /\ clock' = clock + 1
    /\ \E name \in DOMAIN fs :
        /\ STATE_FILE \in DOMAIN fs[name]
        /\ Readable(fs[name][STATE_FILE])
        /\ fs' = WithDir(fs, name, WithFile(fs[name], STATE_FILE, Garbage))
    /\ pristine' = FALSE
    /\ res' = [op |-> "outside"]
    /\ pc' = AllIdle
    /\ UNCHANGED <<manifest, manifestTmp, saveArgs, ret, failedAt, latestBefore,
                   retryVars, histVars>>

\* outside the manager: an external checkpointing mechanism writes its own
\* files into a directory, which record_external is then called for
ExternalWrite ==
    /\ Quiet
    /\ clock < MaxOps
    /\ clock' = clock + 1
    /\ \E s \in Steps : \E path \in RecordPaths(s) :
        LET dir == IF path \in DOMAIN fs THEN fs[path] ELSE EmptyDir
        IN  fs' = WithDir(fs, path, WithFile(dir, SHARD_FILE, Garbage))
    /\ pristine' = FALSE
    /\ res' = [op |-> "outside"]
    /\ pc' = AllIdle
    /\ UNCHANGED <<manifest, manifestTmp, saveArgs, ret, failedAt, latestBefore,
                   retryVars, histVars>>

\* one step of the leader inside save
LeaderStep ==
    \/ LeaderMakeTmp
    \/ LeaderWriteState
    \/ LeaderWriteMetaTmp
    \/ LeaderReplaceMeta
    \/ LeaderRename
    \/ LeaderWriteManifestTmp
    \/ LeaderReplaceManifest
    \/ LeaderBarrier
    \/ LeaderReturn
    \/ LeaderFails

\* one step of follower p inside save
FollowerStep(p) == FollowerSave(p) \/ FollowerReturn(p)

Next ==
    \/ BeginAttempt
    \/ LeaderMakeTmp
    \/ LeaderWriteState
    \/ LeaderWriteMetaTmp
    \/ LeaderReplaceMeta
    \/ LeaderRename
    \/ LeaderWriteManifestTmp
    \/ LeaderReplaceManifest
    \/ LeaderBarrier
    \/ LeaderReturn
    \/ LeaderFails
    \/ \E p \in Followers : FollowerSave(p)
    \/ \E p \in Followers : FollowerReturn(p)
    \/ Relaunch
    \/ RecordExternal
    \/ LoadLatest
    \/ RemoveMeta
    \/ CorruptState
    \/ ExternalWrite

\* while the checkpoint root is exercised the supervisor stands at its start
\* with the launch defaults of LaunchConfig
Init ==
    /\ CkptInit
    /\ policy = [max_retries |-> 3, base_backoff |-> 10, max_backoff |-> 300]
    /\ rpc = "call"
    /\ attempt = 0
    /\ calls = <<>>
    /\ sleeps = <<>>
    /\ raisedExc = NoExc
    /\ terminate = FALSE
    /\ NotCalled

Spec == Init /\ [][Next]_vars

\* the job's save loop alone: a checkpoint attempt by every process
BeginSaveAttempt == clock < MaxAttempts /\ BeginAttempt

SaveNext ==
    \/ BeginSaveAttempt
    \/ LeaderMakeTmp
    \/ LeaderWriteState
    \/ LeaderWriteMetaTmp
    \/ LeaderReplaceMeta
    \/ LeaderRename
    \/ LeaderWriteManifestTmp
    \/ LeaderReplaceManifest
    \/ LeaderBarrier
    \/ LeaderReturn
    \/ LeaderFails
    \/ \E p \in Followers : FollowerSave(p)
    \/ \E p \in Followers : FollowerReturn(p)
    \/ Relaunch

SaveSpec == Init /\ [][SaveNext]_vars

\* every process of the job is scheduled: a process that can take a step of
\* save eventually takes one; nothing obliges the job to be relaunched
FairSaveSpec ==
    SaveSpec /\ WF_vars(LeaderStep) /\ \A p \in Followers : WF_vars(FollowerStep(p))

\* ------------------------------- state.py: operations cut short by a crash
\* the points at which record_external can be cut short: after makedirs
\* (line 170), inside or after the write of meta.json.tmp (lines 29-31), after
\* meta.json is in place (line 32), inside or after the write of
\* manifest.json.tmp (line 181, lines 29-31)
RecordCrashPoints ==
    {"mkdir", "metatmp_torn", "metatmp", "meta", "mftmp_torn", "mftmp"}

\* record_external(s, path, None) cut short at one of its points; the process
\* is gone and another one uses the root afterwards
RecordExternalCrash ==
    /\ Quiet
    /\ clock < MaxCrashOps
    /\ clock' = clock + 1
    /\ \E s \in Steps : \E path \in RecordPaths(s) : \E point \in RecordCrashPoints :
        LET dir == IF path \in DOMAIN fs THEN fs[path] ELSE EmptyDir
            meta == MetaOf(s, None, clock')
            withMeta == WithFile(WithoutFile(dir, META_TMP_FILE), META_FILE, meta)
        IN  /\ fs' = WithDir(fs, path,
                      CASE point = "mkdir" -> dir
                        [] point = "metatmp_torn" -> WithFile(dir, META_TMP_FILE, TornJson)
                        [] point = "metatmp" -> WithFile(dir, META_TMP_FILE, meta)
                        [] OTHER -> withMeta)
            /\ CASE point = "mftmp_torn" -> TornManifestWrite
                 [] point = "mftmp" ->
                       /\ manifestTmp' = record_checkpoint(manifest,
                                CheckpointInfo(s, path, None, clock', TRUE))
                       /\ manifest' = manifest
                 [] OTHER -> UNCHANGED <<manifest, manifestTmp>>
    /\ pristine' = FALSE
    /\ res' = [op |-> "crash"]
    /\ pc' = AllIdle
    /\ UNCHANGED <<saveArgs, ret, failedAt, latestBefore, retryVars, histVars>>

\* load_latest_checkpoint cut short in its except branch, inside or after the
\* write of manifest.json.tmp (line 200, lines 29-31)
LoadLatestCrash ==
    /\ Quiet
    /\ clock < MaxCrashOps
    /\ clock' = clock + 1
    /\ \E found \in latest_checkpoint(fs, manifest) :
        IF found # <<>> /\ LoadFails(fs, found[1].path)
        THEN \/ TornManifestWrite
             \/ /\ manifestTmp' = mark_bad(manifest, found[1].step)
                /\ manifest' = manifest
        ELSE FALSE
    /\ pristine' = FALSE
    /\ res' = [op |-> "crash"]
    /\ pc' = AllIdle
    /\ UNCHANGED <<fs, saveArgs, ret, failedAt, latestBefore, retryVars, histVars>>

\* the state and loss of the training loop at its n-th operation
InputAt(n) ==
    IF n % 2 = 0 THEN [blob |-> "blobA", loss |-> None]
    ELSE [blob |-> "blobB", loss |-> 42]

CrashBegin ==
    /\ clock < MaxCrashOps
    /\ \E s \in Steps : BeginAttemptOf(s, InputAt(clock))

\* record_external with no loss given, as in RecordExternalCrash
CrashRecordExternal ==
    /\ Quiet
    /\ clock < MaxCrashOps
    /\ \E s \in Steps : \E path \in RecordPaths(s) : RecordExternalOf(s, path, None)

CrashLoadLatest == clock < MaxCrashOps /\ LoadLatest

CrashNext ==
    \/ CrashBegin
    \/ LeaderMakeTmp
    \/ LeaderWriteState
    \/ LeaderWriteMetaTmp
    \/ LeaderReplaceMeta
    \/ LeaderRename
    \/ LeaderWriteManifestTmp
    \/ LeaderReplaceManifest
    \/ LeaderBarrier
    \/ LeaderReturn
    \/ LeaderFails
    \/ \E p \in Followers : FollowerSave(p)
    \/ \E p \in Followers : FollowerReturn(p)
    \/ Relaunch
    \/ CrashRecordExternal
    \/ CrashLoadLatest
    \/ RecordExternalCrash
    \/ LoadLatestCrash

CrashSpec == Init /\ [][CrashNext]_vars

\* ---------------------------------- state.py: a long run of successful calls
\* save(s, blob, loss) by every process of the job with no error, from call to
\* return, as one step: lines 86-107 in the leader, lines 83-85 in the others
SaveCompletes(s, blob, loss) ==
    LET dir == checkpoint_dir(s)
        info == CheckpointInfo(s, dir, loss, clock', TRUE)
    IN  /\ Quiet
        /\ ~(dir \in DOMAIN fs /\ DOMAIN fs[dir] # {})
        /\ clock' = clock + 1
        /\ saveArgs' = [step |-> s, blob |-> blob, loss |-> loss]
        /\ latestBefore' = latest_checkpoint(fs, manifest)
        /\ fs' = WithDir(WithoutDir(fs, tmp_dir_of(dir)), dir,
                    WithFile(WithFile(EmptyDir, STATE_FILE, Serialize(blob)),
                             META_FILE, MetaOf(s, loss, clock')))
        /\ manifest' = record_checkpoint(manifest, info)
        /\ manifestTmp' = NoFile
        /\ recorded' = Append(recorded, info)
        /\ produced' = produced \cup {dir}
        /\ pc' = [p \in Procs |-> "done"]
        /\ ret' = [p \in Procs |-> IF p = Leader THEN dir ELSE <<>>]
        /\ res' = [op |-> "save"]
        /\ failedAt' = "none"
        /\ UNCHANGED <<pristine, retryVars>>

\* the records that record_external wrote: every save adds one record and one
\* directory
ExternalCount == Len(recorded) - Cardinality(produced)

\* the training loop's checkpoints: step clock + 1, its loss known every
\* second time
HistSave ==
    /\ clock < MaxHistOps
    /\ SaveCompletes(clock + 1, "blobA", IF clock % 2 = 0 THEN 42 ELSE None)

\* now and then an outside mechanism's checkpoint is registered: the current
\* step in the mechanism's own directory, or step 1 once more in step_<1>
HistRecordExternal ==
    /\ clock < MaxHistOps
    /\ ExternalCount < MaxExternal
    /\ \/ RecordExternalOf(clock + 1, EXT_DIR, None)
       \/ RecordExternalOf(1, checkpoint_dir(1), None)

HistNext == HistSave \/ HistRecordExternal

HistSpec == Init /\ [][HistNext]_vars

\* ------------------------------------------------- claims on the supervisor
IsRetriableFailure(r) == ~r.ok /\ classify_fault(r.text) = RETRIABLE

IsFatalFailure(r) == ~r.ok /\ classify_fault(r.text) = NON_RETRIABLE

\* every invocation so far failed with a retriable fault
AllCallsRetriable == \A i \in 1..Len(calls) : IsRetriableFailure(calls[i])

\* the latch is set while the loop sleeps or stands between two attempts
LatchedBetweenAttempts ==
    should_terminate /\ (rpc = "sleeping" \/ (rpc = "call" /\ attempt > 0))

\* C5: once the termination latch is set while run_with_retries is in a backoff
\* sleep or between two attempts, the loop aborts: no step invokes the work
\* function again, and the run does not end by returning or by propagating the
\* original failure (it ends "terminated").
C5_LatchAbortsRetryLoop ==
    [][LatchedBetweenAttempts =>
          (calls' = calls /\ rpc' \notin {"returned", "raised"})]_vars

C7_FatalFaultPropagatesAtOnce ==
    \A i \in 1..Len(calls) :
        IsFatalFailure(calls[i]) =>
            /\ i = Len(calls)
            /\ rpc = "raised"
            /\ raisedExc = Exc(calls[i].text)
            /\ Len(sleeps) = i - 1

C7_Witness ==
    /\ Len(calls) = 2
    /\ IsRetriableFailure(calls[1])
    /\ IsFatalFailure(calls[2])
    /\ policy.max_retries >= 2
    /\ rpc = "raised"
    /\ Len(sleeps) = 1

ManifestNow == load_manifest(manifest)

\* C1: after any sequence of leader saves, record_external and
\* load_latest_checkpoint calls (no failed save, no change from outside), a
\* non-null latest pointer names a step that has a record with ok = true in
\* the manifest history.
C1_LatestPointsToValidRecord ==
    pristine =>
        (ManifestNow.latest # None =>
            \E i \in 1..Len(ManifestNow.checkpoints) :
                /\ ManifestNow.checkpoints[i].step = ManifestNow.latest
                /\ ManifestNow.checkpoints[i].ok)

\* the leader's save ended between making the temporary directory and the
\* rename; the temporary directory is on disk and step_<N> is not
FailedBeforeRename ==
    /\ LeaderAt("failed")
    /\ failedAt \in {"tmp", "state", "metatmp", "meta"}
    /\ TmpDir \in DOMAIN fs
    /\ CkptDir \notin DOMAIN fs

\* C2: after a leader save that ended between creating the temporary
\* directory and the rename, latest_checkpoint() returns what it returned
\* before that save began, and never a record located at the temporary
\* directory.
C2_FailedSaveLeavesLatest ==
    FailedBeforeRename =>
        /\ latest_checkpoint(fs, manifest) = latestBefore
        /\ \A r \in latest_checkpoint(fs, manifest) :
              r # <<>> => r[1].path # TmpDir

\* C3: when a follower has returned from save(step), the leader has called
\* barrier() and the manifest on disk holds the leader's record of that step:
\* latest is the step, the last record is the step's, and no manifest rewrite
\* is half done.
C3_FollowerReturnsAfterManifest ==
    \A p \in Followers :
        pc[p] = "done" =>
            /\ pc[Leader] \in {"barrier", "done"}
            /\ manifest.exists
            /\ manifest.latest = saveArgs.step
            /\ manifest.checkpoints # <<>>
            /\ manifest.checkpoints[Len(manifest.checkpoints)] =
                 CheckpointInfo(saveArgs.step, CkptDir, saveArgs.loss, clock, TRUE)
            /\ manifestTmp = NoFile

C3_Witness ==
    /\ \E p \in Followers : pc[p] = "done" /\ ret[p] = <<>>
    /\ pc[Leader] = "barrier"
    /\ clock = MaxAttempts
    /\ Len(manifest.checkpoints) = MaxAttempts

\* the positions of a process inside save
InSave ==
    {"call", "tmp", "state", "metatmp", "meta", "renamed", "mftmp", "recorded",
     "barrier"}

\* C4: every process that called save eventually leaves it, whether the
\* leader's write succeeds or fails: no process stays inside save (a follower
\* at the barrier) forever.
C4_EveryProcessLeavesSave ==
    \A p \in Procs : (pc[p] \in InSave) ~> (pc[p] \notin InSave)

\* C9: when load_latest_checkpoint found the checkpoint of step S (here: in
\* the directory step_<S> itself, through the pointer or through the scan) and
\* load failed, it returned None, and the manifest now holds a record of step
\* S, every record of step S has ok = false, and every other record is as it
\* was.
C9_LoadFailureMarksRecord ==
    (/\ res.op = "load_latest"
     /\ res.failed
     /\ res.found[1].path = checkpoint_dir(res.found[1].step)) =>
        LET S == res.found[1].step
            before == res.before.checkpoints
            after == ManifestNow.checkpoints
        IN  /\ res.value = <<>>
            /\ manifest.exists
            /\ \E i \in 1..Len(after) : after[i].step = S
            /\ \A i \in 1..Len(after) : after[i].step = S => ~after[i].ok
            /\ Len(after) = Len(before)
            /\ \A i \in 1..Len(after) : before[i].step # S => after[i] = before[i]

\* the steps N whose directory step_<N> passes the validity check
ValidSteps == { n \in Steps : is_valid_checkpoint(fs, checkpoint_dir(n)) }

\* the step C10 expects of latest_checkpoint(): the manifest's latest step if
\* its directory is valid, else the largest valid step, else None
ExpectedLatestStep ==
    IF ManifestNow.latest # None
       /\ is_valid_checkpoint(fs, checkpoint_dir(ManifestNow.latest))
    THEN ManifestNow.latest
    ELSE IF ValidSteps = {} THEN None
    ELSE CHOOSE n \in ValidSteps : \A k \in ValidSteps : k <= n

StepOf(r) == IF r = <<>> THEN None ELSE r[1].step

\* C10: with no save in flight, latest_checkpoint() returns the manifest's
\* latest step when that step's directory is valid; otherwise the largest N
\* whose directory step_<N> is valid; and nothing when no such directory is
\* valid.
C10_LatestIsPointerOrLargestValid ==
    Quiet =>
        \A r \in latest_checkpoint(fs, manifest) : StepOf(r) = ExpectedLatestStep

\* C11: after any sequence of successful leader saves and record_external
\* calls the manifest history has at most 20 records, they are the most
\* recently recorded ones in the order they were recorded, and
\* list_checkpoints() returns exactly them in that order.
C11_HistoryIsLastTwenty ==
    LET h == list_checkpoints(manifest)
        n == Len(recorded)
    IN  /\ Len(h) <= 20
        /\ Len(h) = IF n <= 20 THEN n ELSE 20
        /\ \A i \in 1..Len(h) : h[i] = recorded[n - Len(h) + i]
        /\ manifest.exists => manifest.checkpoints = h

\* 25 sequential saves: the history is the steps 6..25
C11_Witness ==
    LET h == list_checkpoints(manifest)
    IN  /\ Len(recorded) = 25
        /\ ExternalCount = 0
        /\ Len(h) = 20
        /\ \A i \in 1..20 : h[i].step = 5 + i /\ h[i].path = checkpoint_dir(5 + i)

\* what a process reads from the checkpoint root
Root == <<fs, manifest, manifestTmp>>

\* the barrier of the attempt has released: some process is past it
BarrierReleased == \E p \in Procs : pc[p] = "done"

\* C12: a step of a non-leader inside save changes no directory and no
\* manifest file; it returns only from the barrier, once every process has
\* reached it, and returns the empty location.  After the barrier of an
\* attempt has released, latest_checkpoint() has one possible result, the
\* record of the step just saved in its step_<N> directory, so every process
\* of the job reads the same one.
C12_FollowerWritesNothing ==
    /\ [](BarrierReleased =>
            latest_checkpoint(fs, manifest) =
                { <<CheckpointInfo(saveArgs.step, CkptDir, None, 0, TRUE)>> })
    /\ [][\A p \in Followers :
            (pc[p] \in InSave /\ pc'[p] # pc[p]) =>
                /\ Root' = Root
                /\ pc'[p] = "done" =>
                      (pc[p] = "barrier" /\ BarrierOpen /\ ret'[p] = <<>>)]_vars

\* the follower has returned from the save of step 1 while an earlier failed
\* save of step 2 has left its temporary directory with a metadata file
C12_Witness ==
    /\ pc[Leader] = "done"
    /\ \A p \in Followers : pc[p] = "done" /\ ret[p] = <<>>
    /\ saveArgs.step = 1
    /\ tmp_dir_of(checkpoint_dir(2)) \in DOMAIN fs
    /\ META_FILE \in DOMAIN fs[tmp_dir_of(checkpoint_dir(2))]

\* the candidate directories the validity check is asked about: those on disk
\* and the names the manager computes, present or not
Candidates == DOMAIN fs \cup { checkpoint_dir(n) : n \in Steps } \cup {EXT_DIR}

\* C13: the validity check accepts a directory if and only if it exists, holds
\* the metadata file, and holds the state artifact or at least one file other
\* than the metadata file; a directory with only the metadata file is
\* rejected.
C13_ValidIffMetaAndPayload ==
    \A d \in Candidates :
        is_valid_checkpoint(fs, d) <=>
            /\ d \in DOMAIN fs
            /\ META_FILE \in DOMAIN fs[d]
            /\ \/ STATE_FILE \in DOMAIN fs[d]
               \/ \E f \in DOMAIN fs[d] : f # META_FILE

\* a manifest file that is a whole JSON document of the manager
CompleteManifest(mf) == mf = NoFile \/ DOMAIN mf = {"exists", "latest", "checkpoints"}

\* the record without its ok flag, which load_latest_checkpoint may rewrite
Registered(info) == [info EXCEPT !.ok = TRUE]

\* C14: whatever operation was cut short and wherever, manifest.json is absent
\* or a whole manifest, namely the one of the last completed rewrite (the
\* records written so far, at most the last 20, never part of a newer one);
\* every metadata file under its final name is whole; and every step_<N>
\* directory save renamed into place holds a whole state artifact and a whole
\* metadata file.
C14_FinalNamesAreComplete ==
    /\ CompleteManifest(manifest)
    /\ LET h == ManifestNow.checkpoints
           n == Len(recorded)
       IN  /\ Len(h) = IF n <= 20 THEN n ELSE 20
           /\ \A i \in 1..Len(h) : Registered(h[i]) = recorded[n - Len(h) + i]
    /\ \A d \in DOMAIN fs : META_FILE \in DOMAIN fs[d] => fs[d][META_FILE] # TornJson
    /\ \A d \in produced :
          /\ d \in DOMAIN fs
          /\ STATE_FILE \in DOMAIN fs[d]
          /\ fs[d][STATE_FILE] # Torn
          /\ META_FILE \in DOMAIN fs[d]

\* a save was cut short inside the rewrite of the manifest: its directory is
\* in place, manifest.json.tmp is torn, manifest.json is the previous one
C14_Witness ==
    /\ pc[Leader] = "failed"
    /\ failedAt = "renamed"
    /\ manifestTmp = TornManifest
    /\ CkptDir \in produced
    /\ Cardinality(produced) = 2
    /\ manifest.exists
    /\ Len(manifest.checkpoints) = 1

\* C15: when the leader's save(step, blob, loss) has returned location L, L
\* is the step's directory, load(L) does not fail and returns the saved blob,
\* and latest_checkpoint() returns the record of that step at location L and
\* nothing else, whatever the checkpoint root held before the save.
C15_SaveRoundTrip ==
    pc[Leader] = "done" =>
        LET L == ret[Leader]
        IN  /\ L = checkpoint_dir(saveArgs.step)
            /\ ~LoadFails(fs, L)
            /\ load(fs, L) = saveArgs.blob
            /\ latest_checkpoint(fs, manifest) =
                  { <<CheckpointInfo(saveArgs.step, L, None, 0, TRUE)>> }

\* step 1 saved on a root whose manifest already names step 2
C15_Witness ==
    /\ pc[Leader] = "done"
    /\ saveArgs.step = 1
    /\ saveArgs.blob = "blobB"
    /\ Len(manifest.checkpoints) = 2
    /\ manifest.checkpoints[1].step = 2
    /\ is_valid_checkpoint(fs, checkpoint_dir(2))

\* ------------------------------------------- claims on the stateless functions
\* sig occurs in text when letter case is disregarded
OccursIgnoringCase(sig, text) ==
    \E k \in 0..(Len(text) - Len(sig)) :
        \A j \in 1..Len(sig) : LowerChar(text[k + j]) = LowerChar(sig[j])

\* C16: classify_fault returns RETRIABLE if and only if the failure's text
\* contains one of the five signatures, letter case disregarded; every other
\* text, the empty one included, gets NON_RETRIABLE.  (The result is a
\* function of the text alone: classify_fault reads nothing else.)
C16_ClassifyIsSignatureMatch ==
    fnOut.done =>
        /\ fnOut.value \in {RETRIABLE, NON_RETRIABLE}
        /\ fnOut.value = RETRIABLE <=>
              \E i \in 1..Len(RETRIABLE_SIGNATURES) :
                  OccursIgnoringCase(RETRIABLE_SIGNATURES[i], fnArg)
        /\ fnArg = <<>> => fnOut.value = NON_RETRIABLE

\* "ERROR: CONNECTION RESET (RANK 3)" is classified retriable
C16_Witness ==
    /\ fnOut.done
    /\ fnOut.value = RETRIABLE
    /\ fnArg = UpperText(<<"E","r","r","o","r",":"," ">> \o RETRIABLE_SIGNATURES[2]
                         \o <<" ","(","r","a","n","k"," ","3",")">>)

RECURSIVE CappedDoubling(_, _, _)
\* min(cap, base * 2^n) for base > 0, by n doublings that stop at the cap
CappedDoubling(base, n, cap) ==
    IF base >= cap THEN cap
    ELSE IF n = 0 THEN base
    ELSE CappedDoubling(2 * base, n - 1, cap)

\* C17: for every policy with base_backoff > 0 and max_backoff >=
\* base_backoff and every attempt >= 0, backoff_for(attempt) returns
\* min(max_backoff, base_backoff * 2^attempt), which is at most max_backoff
\* and at most the value for attempt + 1.
C17_BackoffIsCappedDoubling ==
    fnOut.done =>
        LET p == fnArg.pol
            expected == CappedDoubling(p.base_backoff, fnArg.att, p.max_backoff)
        IN  /\ fnOut.raised = ""
            /\ fnOut.value = expected
            /\ fnOut.value <= p.max_backoff
            /\ fnOut.value <= CappedDoubling(p.base_backoff, fnArg.att + 1,
                                             p.max_backoff)

\* ---------------------------------------------- claims on the terminator
\* C18: the termination latch starts unset; once set it is set in every later
\* state (no step clears it, a further signal leaves it set); it changes only
\* by being set, in a step that touches nothing of the supervisor, so reading
\* should_terminate and running the retry loop never change it; and handling
\* the signal leaves it set.
C18_LatchIsTerminal ==
    /\ ~should_terminate
    /\ [][/\ terminate => terminate'
          /\ terminate' # terminate =>
                (terminate' /\ UNCHANGED <<rpc, attempt, calls, sleeps, raisedExc>>)
          /\ HandleSignal => terminate']_vars

\* the latch was set and the retry loop then ran to its end with it set
C18_Witness ==
    /\ should_terminate
    /\ rpc = "raised"
    /\ policy.max_retries = 2
    /\ Len(calls) = 3
    /\ Len(sleeps) = 2

\* ------------------------------- further claims on the checkpoint manager
\* load_latest_checkpoint failed to load step S from its directory step_<S>
\* and the manifest now holds a record of S, each marked ok = false; nothing
\* has touched the root since
MarkedInvalid(S) ==
    /\ res.op = "load_latest"
    /\ res.failed
    /\ res.found[1].step = S
    /\ res.found[1].path = checkpoint_dir(S)
    /\ \E i \in 1..Len(ManifestNow.checkpoints) : ManifestNow.checkpoints[i].step = S
    /\ \A i \in 1..Len(ManifestNow.checkpoints) :
          ManifestNow.checkpoints[i].step = S => ~ManifestNow.checkpoints[i].ok

\* C19: after load_latest_checkpoint failed to load the checkpoint of step S
\* and marked its record invalid, latest_checkpoint() on the unchanged root
\* does not return step S.
C19_MarkedInvalidNotReturned ==
    \A S \in Steps :
        MarkedInvalid(S) =>
            \A r \in latest_checkpoint(fs, manifest) : StepOf(r) # S

\* record_external(step, path, loss) has just returned and the directory it
\* registered holds the metadata file and the outside mechanism's or the
\* manager's state file
RegisteredPayload ==
    /\ res.op = "record_external"
    /\ is_valid_checkpoint(fs, res.path)
    /\ \E f \in DOMAIN fs[res.path] : f \in {STATE_FILE, SHARD_FILE}

\* C20: after record_external(step, path, loss) on a directory that passes the
\* validity check, latest_checkpoint() returns the record of that step located
\* at the registered path, also when the path is not the manager's own
\* step_<N> directory of the step.
C20_ExternalIsLatestAtItsPath ==
    RegisteredPayload =>
        latest_checkpoint(fs, manifest) =
            { <<CheckpointInfo(res.step, res.path, None, 0, TRUE)>> }

====
